---- MODULE Spec2Model ----
(***************************************************************************)
(* Model of the Tailscale update checker (update.ts) of the repository     *)
(* louislam/unraid-6.12-tailscale.  The repository holds two revisions of  *)
(* the script: src/update.ts and src/unnamed/part_003.  They share main,   *)
(* readConfig, writeConfig, extractVersion, getCurrentDate, buildPlugin    *)
(* and the GitHub fallback, and differ in the version comparator and in    *)
(* fetchSHA256.  The variable `revision` selects which one is running.     *)
(*                                                                         *)
(* Strings are sequences of characters, each a one-character string (or    *)
(* its code point, "U+00A0", where TLA+ has no escape), so that the        *)
(* regular expressions, split, trim, padStart and template literals of the *)
(* script are computed character by character.                             *)
(***************************************************************************)
EXTENDS Integers, Sequences, FiniteSets, TLC

\* ------------------------------------------------------------------------
\* Bounds of the model
\* ------------------------------------------------------------------------
\* largest number of fragments in a stable-listing body
MaxListing == 3

\* largest number of runs of the script, one after the other
MaxRuns == 2

\* ------------------------------------------------------------------------
\* Characters and literals
\* ------------------------------------------------------------------------
Digits == {"0", "1", "2", "3", "4", "5", "6", "7", "8", "9"}

HexChars == Digits \cup {"a", "b", "c", "d", "e", "f", "A", "B", "C", "D", "E", "F"}

\* the characters String.prototype.trim and the regex \s take as white space:
\* TAB, LF, VT, FF, CR, SPACE, NBSP, the Unicode space separators, LS, PS and
\* ZWNBSP; a character TLA+ cannot escape is written as its code point
WhiteSpace ==
    {"\t", "\n", "U+000B", "\f", "\r", " ", "U+00A0", "U+1680",
     "U+2000", "U+2001", "U+2002", "U+2003", "U+2004", "U+2005", "U+2006", "U+2007",
     "U+2008", "U+2009", "U+200A", "U+2028", "U+2029", "U+202F", "U+205F", "U+3000",
     "U+FEFF"}

SHA256_HEX_LEN == 64

LIT_TAILSCALE == <<"t", "a", "i", "l", "s", "c", "a", "l", "e", "_">>

LIT_AMD64 == <<"_", "a", "m", "d", "6", "4">>

LIT_TGZ == <<".", "t", "g", "z">>

LIT_SHA256_SUFFIX == <<".", "s", "h", "a", "2", "5", "6">>

\* the value JavaScript calls null (no string)
NULL == <<"<null>">>

\* ------------------------------------------------------------------------
\* String primitives
\* ------------------------------------------------------------------------
\* s.startsWith(lit, i-1): lit occurs in s at (1-based) position i
StartsWithAt(s, i, lit) ==
    /\ i >= 1
    /\ i + Len(lit) - 1 <= Len(s)
    /\ SubSeq(s, i, i + Len(lit) - 1) = lit

\* s.includes(lit)
Includes(s, lit) == \E i \in 1..(Len(s) + 1) : StartsWithAt(s, i, lit)

\* end (exclusive) of the greedy run \d* that starts at position i
RECURSIVE DigitRunEnd(_, _)
DigitRunEnd(s, i) ==
    IF i <= Len(s) /\ s[i] \in Digits THEN DigitRunEnd(s, i + 1) ELSE i

\* end (exclusive) of a match of \d+\.\d+\.\d+ at position i, 0 if none
DottedTripleEnd(s, i) ==
    LET e1 == DigitRunEnd(s, i) IN
    IF e1 = i \/ e1 > Len(s) \/ s[e1] # "." THEN 0
    ELSE LET e2 == DigitRunEnd(s, e1 + 1) IN
         IF e2 = e1 + 1 \/ e2 > Len(s) \/ s[e2] # "." THEN 0
         ELSE LET e3 == DigitRunEnd(s, e2 + 1) IN
              IF e3 = e2 + 1 THEN 0 ELSE e3

\* match of /tailscale_(\d+\.\d+\.\d+)<tail>/ anchored at position i:
\* [ok, cap (group 1), end (exclusive end of the whole match)]
MatchArtifactAt(s, i, tail) ==
    IF ~StartsWithAt(s, i, LIT_TAILSCALE)
    THEN [ok |-> FALSE, cap |-> <<>>, end |-> 0]
    ELSE LET vs == i + Len(LIT_TAILSCALE)
             ve == DottedTripleEnd(s, vs) IN
         IF ve = 0 \/ ~StartsWithAt(s, ve, tail)
         THEN [ok |-> FALSE, cap |-> <<>>, end |-> 0]
         ELSE [ok |-> TRUE, cap |-> SubSeq(s, vs, ve - 1), end |-> ve + Len(tail)]

\* leftmost position >= i where the pattern matches, 0 if none
RECURSIVE FirstMatchFrom(_, _, _)
FirstMatchFrom(s, i, tail) ==
    IF i > Len(s) THEN 0
    ELSE IF MatchArtifactAt(s, i, tail).ok THEN i
    ELSE FirstMatchFrom(s, i + 1, tail)

\* [...html.matchAll(/tailscale_(\d+\.\d+\.\d+)_amd64\.tgz/g)].map(m => m[1])
RECURSIVE MatchAllFrom(_, _)
MatchAllFrom(html, i) ==
    LET p == FirstMatchFrom(html, i, LIT_AMD64 \o LIT_TGZ) IN
    IF p = 0 THEN <<>>
    ELSE LET m == MatchArtifactAt(html, p, LIT_AMD64 \o LIT_TGZ) IN
         <<m.cap>> \o MatchAllFrom(html, m.end)

matchAllVersions(html) == MatchAllFrom(html, 1)

\* extractVersion handing back the identifier itself when it does not match
extractVersionOrIdentifier(tailscaleVersion) ==
    LET p == FirstMatchFrom(tailscaleVersion, 1, LIT_AMD64) IN
    IF p = 0 THEN tailscaleVersion
    ELSE MatchArtifactAt(tailscaleVersion, p, LIT_AMD64).cap

\* extractVersion: tailscaleVersion.match(/tailscale_(\d+\.\d+\.\d+)_amd64/)
extractVersion(tailscaleVersion) ==
    LET p == FirstMatchFrom(tailscaleVersion, 1, LIT_AMD64) IN
    IF p = 0 THEN <<>> ELSE MatchArtifactAt(tailscaleVersion, p, LIT_AMD64).cap

\* text.trim()
RECURSIVE TrimStart(_)
TrimStart(s) ==
    IF s # <<>> /\ Head(s) \in WhiteSpace THEN TrimStart(Tail(s)) ELSE s

RECURSIVE TrimEnd(_)
TrimEnd(s) ==
    IF s # <<>> /\ s[Len(s)] \in WhiteSpace THEN TrimEnd(SubSeq(s, 1, Len(s) - 1)) ELSE s

Trim(s) == TrimEnd(TrimStart(s))

\* s.split(/\s+/)[0]: the characters before the first whitespace run
RECURSIVE SplitWsFirst(_)
SplitWsFirst(s) ==
    IF s = <<>> \/ Head(s) \in WhiteSpace THEN <<>>
    ELSE <<Head(s)>> \o SplitWsFirst(Tail(s))

\* s.split(sep) for a one-character separator
RECURSIVE SplitChar(_, _)
SplitChar(s, sep) ==
    IF \A i \in 1..Len(s) : s[i] # sep THEN <<s>>
    ELSE LET p == CHOOSE i \in 1..Len(s) : s[i] = sep /\ \A j \in 1..(i - 1) : s[j] # sep
         IN <<SubSeq(s, 1, p - 1)>> \o SplitChar(SubSeq(s, p + 1, Len(s)), sep)

DigitValue(c) ==
    CASE c = "0" -> 0 [] c = "1" -> 1 [] c = "2" -> 2 [] c = "3" -> 3 [] c = "4" -> 4
      [] c = "5" -> 5 [] c = "6" -> 6 [] c = "7" -> 7 [] c = "8" -> 8 [] c = "9" -> 9

DigitChar(n) ==
    CASE n = 0 -> "0" [] n = 1 -> "1" [] n = 2 -> "2" [] n = 3 -> "3" [] n = 4 -> "4"
      [] n = 5 -> "5" [] n = 6 -> "6" [] n = 7 -> "7" [] n = 8 -> "8" [] n = 9 -> "9"

\* Number(s) for a string of decimal digits (Number("") is 0)
RECURSIVE ToNumber(_)
ToNumber(s) ==
    IF s = <<>> THEN 0
    ELSE 10 * ToNumber(SubSeq(s, 1, Len(s) - 1)) + DigitValue(s[Len(s)])

\* String(n) for a natural number
RECURSIVE NumberToString(_)
NumberToString(n) ==
    IF n < 10 THEN <<DigitChar(n)>>
    ELSE NumberToString(n \div 10) \o <<DigitChar(n % 10)>>

\* s.padStart(2, '0')
PadStart2(s) == IF Len(s) >= 2 THEN s ELSE IF Len(s) = 1 THEN <<"0">> \o s ELSE <<"0", "0">>

\* v.split('.').map(Number)
VersionParts(v) ==
    LET p == SplitChar(v, ".") IN [i \in 1..Len(p) |-> ToNumber(p[i])]

\* ------------------------------------------------------------------------
\* Version selection (fetchLatestTailscaleVersion, after the listing arrived)
\* ------------------------------------------------------------------------
Revisions == {"update_ts", "part_003"}

\* sort comparator of src/update.ts: the first three components are compared;
\* a component missing on one side makes the difference NaN, which sort
\* treats as 0
CompareUpdateTs(a, b) ==
    LET aParts == VersionParts(a)
        bParts == VersionParts(b)
        Defined(i) == i <= Len(aParts) /\ i <= Len(bParts)
        Differ(i) == IF Defined(i) THEN aParts[i] # bParts[i]
                     ELSE i <= Len(aParts) \/ i <= Len(bParts)
    IN IF \A i \in 1..3 : ~Differ(i) THEN 0
       ELSE LET k == CHOOSE i \in 1..3 : Differ(i) /\ \A j \in 1..(i - 1) : ~Differ(j)
            IN IF Defined(k) THEN bParts[k] - aParts[k] ELSE 0

\* sort comparator of src/unnamed/part_003: all components, missing ones are 0
ComparePart003(a, b) ==
    LET aParts == VersionParts(a)
        bParts == VersionParts(b)
        maxLength == IF Len(aParts) >= Len(bParts) THEN Len(aParts) ELSE Len(bParts)
        aPart(i) == IF i <= Len(aParts) THEN aParts[i] ELSE 0
        bPart(i) == IF i <= Len(bParts) THEN bParts[i] ELSE 0
    IN IF \A i \in 1..maxLength : aPart(i) = bPart(i) THEN 0
       ELSE LET k == CHOOSE i \in 1..maxLength :
                        aPart(i) # bPart(i) /\ \A j \in 1..(i - 1) : aPart(j) = bPart(j)
            IN bPart(k) - aPart(k)

\* the comparator with its operands swapped: an ascending sort
compareVersionsAscending(rev, a, b) ==
    IF rev = "update_ts" THEN CompareUpdateTs(b, a) ELSE ComparePart003(b, a)

compareVersions(rev, a, b) ==
    IF rev = "update_ts" THEN CompareUpdateTs(a, b) ELSE ComparePart003(a, b)

\* [...new Set(versions)]: first occurrences, in order
RECURSIVE UniqueVersions(_)
UniqueVersions(vs) ==
    IF vs = <<>> THEN <<>>
    ELSE LET init == UniqueVersions(SubSeq(vs, 1, Len(vs) - 1))
             x == vs[Len(vs)]
         IN IF \E i \in 1..Len(init) : init[i] = x THEN init ELSE Append(init, x)

\* position at which a stable sort places x among the already sorted elements
InsertPos(rev, sorted, x) ==
    IF \A k \in 1..Len(sorted) : compareVersions(rev, x, sorted[k]) >= 0
    THEN Len(sorted) + 1
    ELSE CHOOSE k \in 1..Len(sorted) :
            /\ compareVersions(rev, x, sorted[k]) < 0
            /\ \A j \in 1..(k - 1) : compareVersions(rev, x, sorted[j]) >= 0

\* uniqueVersions.sort(comparator): Array.prototype.sort is stable
RECURSIVE SortVersions(_, _)
SortVersions(rev, vs) ==
    IF vs = <<>> THEN <<>>
    ELSE LET sorted == SortVersions(rev, SubSeq(vs, 1, Len(vs) - 1))
             x == vs[Len(vs)]
             k == InsertPos(rev, sorted, x)
         IN SubSeq(sorted, 1, k - 1) \o <<x>> \o SubSeq(sorted, k, Len(sorted))

\* the value returned by the try block once the listing text is there
selectLatestVersion(rev, listingText) ==
    LET versions == matchAllVersions(listingText) IN
    IF Len(versions) = 0 THEN NULL
    ELSE SortVersions(rev, UniqueVersions(versions))[1]

\* ------------------------------------------------------------------------
\* Pure parts of fetchLatestVersionFromGitHub, fetchSHA256, main
\* ------------------------------------------------------------------------
\* tagName.startsWith('v') ? tagName.substring(1) : tagName
stripTagPrefix(tagName) ==
    IF tagName # <<>> /\ Head(tagName) = "v" THEN Tail(tagName) ELSE tagName

\* text.trim().split(/\s+/)[0]
firstToken(text) == SplitWsFirst(Trim(text))

\* /^[a-f0-9]{64}$/i.test(hash)
isValidSHA256(hash) ==
    /\ Len(hash) = SHA256_HEX_LEN
    /\ \A i \in 1..Len(hash) : hash[i] \in HexChars

\* `tailscale_${latestVersion}_amd64.tgz`
amd64PackageName(v) == LIT_TAILSCALE \o v \o LIT_AMD64 \o LIT_TGZ

\* `tailscale_${latestVersion}_amd64`
tailscaleVersionId(v) == LIT_TAILSCALE \o v \o LIT_AMD64

\* `${TAILSCALE_STABLE_URL}${packageName}.sha256`, relative to the stable base
sha256Url(packageName) == packageName \o LIT_SHA256_SUFFIX

\* first run of 64 hex characters in a line: line.match(/([a-f0-9]{64})/i)
lineHashMatch(line) ==
    LET Hit(i) == /\ i + SHA256_HEX_LEN - 1 <= Len(line)
                  /\ \A j \in i..(i + SHA256_HEX_LEN - 1) : line[j] \in HexChars
    IN IF \E i \in 1..Len(line) : Hit(i)
       THEN LET p == CHOOSE i \in 1..Len(line) : Hit(i) /\ \A j \in 1..(i - 1) : ~Hit(j)
            IN SubSeq(line, p, p + SHA256_HEX_LEN - 1)
       ELSE NULL

\* the loop over html.split('\n') of src/update.ts: the hash of the first
\* line that includes the package name and holds 64 hex characters
RECURSIVE scanLinesForHash(_, _)
scanLinesForHash(lines, packageName) ==
    IF lines = <<>> THEN NULL
    ELSE IF Includes(Head(lines), packageName) /\ lineHashMatch(Head(lines)) # NULL
         THEN lineHashMatch(Head(lines))
         ELSE scanLinesForHash(Tail(lines), packageName)

pageHash(pageText, packageName) == scanLinesForHash(SplitChar(pageText, "\n"), packageName)

\* getCurrentDate without the + 1 that getMonth() needs
getCurrentDateZeroBasedMonth(now) ==
    NumberToString(now.year) \o <<".">> \o PadStart2(NumberToString(now.month))
        \o <<".">> \o PadStart2(NumberToString(now.date))

\* getCurrentDate for a clock reading [year, month (0..11), date]
getCurrentDate(now) ==
    NumberToString(now.year) \o <<".">> \o PadStart2(NumberToString(now.month + 1))
        \o <<".">> \o PadStart2(NumberToString(now.date))

\* ------------------------------------------------------------------------
\* The environment: file contents, responses, clock readings
\* ------------------------------------------------------------------------
V_1_90_6 == <<"1", ".", "9", "0", ".", "6">>

V_1_90_10 == <<"1", ".", "9", "0", ".", "1", "0">>

V_1_92_0 == <<"1", ".", "9", "2", ".", "0">>

\* the same release as 1.92.0, written with a leading zero
V_1_92_00 == <<"1", ".", "9", "2", ".", "0", "0">>

\* a tag with two components only
V_1_92 == <<"1", ".", "9", "2">>

KnownVersions == {V_1_90_6, V_1_90_10, V_1_92_0, V_1_92_00}

\* the digest the upstream server publishes for an artifact
artifactDigest(packageName) ==
    LET c == CASE packageName = amd64PackageName(V_1_90_6) -> "a"
               [] packageName = amd64PackageName(V_1_90_10) -> "b"
               [] packageName = amd64PackageName(V_1_92_0) -> "c"
               [] packageName = amd64PackageName(V_1_92_00) -> "d"
               [] OTHER -> "e"
    IN [i \in 1..SHA256_HEX_LEN |-> IF i % 2 = 1 THEN c ELSE "7"]

UpperHex(c) ==
    CASE c = "a" -> "A" [] c = "b" -> "B" [] c = "c" -> "C" [] c = "d" -> "D"
      [] c = "e" -> "E" [] c = "f" -> "F" [] OTHER -> c

ToUpperCase(s) == [i \in 1..Len(s) |-> UpperHex(s[i])]

\* lines a stable listing is made of: four amd64 artifacts, one artifact of
\* another architecture
ListingLines ==
    {amd64PackageName(v) : v \in KnownVersions}
        \cup {LIT_TAILSCALE \o <<"1", ".", "9", "4", ".", "0", "_", "a", "r", "m", "6", "4">> \o LIT_TGZ}

RECURSIVE JoinLines(_)
JoinLines(lines) ==
    IF lines = <<>> THEN <<>> ELSE Head(lines) \o <<"\n">> \o JoinLines(Tail(lines))

ListingTexts ==
    {JoinLines(ls) : ls \in UNION {[1..n -> ListingLines] : n \in 0..MaxListing}}

\* responses to GET https://pkgs.tailscale.com/stable/
StableResponses ==
    {[kind |-> "neterr", body |-> <<>>], [kind |-> "notok", body |-> <<>>]}
        \cup {[kind |-> "ok", body |-> t] : t \in ListingTexts}

\* responses to GET .../releases/latest: body is tag_name
GitHubResponses ==
    {[kind |-> k, body |-> <<>>] : k \in {"neterr", "notok", "badjson", "notag"}}
        \cup {[kind |-> "ok", body |-> t] :
                t \in {<<"v">> \o V_1_92_0, V_1_90_6, <<"v">>, <<"v">> \o V_1_92}}

\* bodies of the .sha256 resource that are not a digest
JunkChecksumBodies ==
    { <<>>,
      <<" ", "\n">>,
      <<"U+000B", "\f">>,
      <<"<", "h", "t", "m", "l", ">", " ", "4", "0", "4">>,
      [i \in 1..(SHA256_HEX_LEN - 1) |-> "a"],
      [i \in 1..(SHA256_HEX_LEN + 1) |-> "a"],
      [i \in 1..SHA256_HEX_LEN |-> IF i = 1 THEN "g" ELSE "a"] }

\* responses to GET {stable}{packageName}.sha256
ChecksumResponses(packageName) ==
    {[kind |-> "neterr", body |-> <<>>], [kind |-> "notok", body |-> <<>>]}
        \cup {[kind |-> "ok", body |-> b] :
                b \in { artifactDigest(packageName) \o <<" ", " ">> \o packageName \o <<"\n">>,
                        ToUpperCase(artifactDigest(packageName)) \o <<"\n">>,
                        <<"\f">> \o artifactDigest(packageName) \o <<"U+00A0">> \o packageName }
                      \cup JunkChecksumBodies}

HashLine(v) == artifactDigest(amd64PackageName(v)) \o <<" ", " ">> \o amd64PackageName(v)

\* listing pages the checksum fallback of src/update.ts may receive: one
\* digest per line, names only, everything on one line
PageTexts ==
    { HashLine(V_1_90_6) \o <<"\n">> \o HashLine(V_1_92_0) \o <<"\n">> \o HashLine(V_1_90_10),
      amd64PackageName(V_1_90_6) \o <<"\n">> \o amd64PackageName(V_1_92_0),
      HashLine(V_1_90_6) \o <<" ">> \o HashLine(V_1_92_0) \o <<" ">> \o HashLine(V_1_90_10) }

PageResponses ==
    {[kind |-> "neterr", body |-> <<>>], [kind |-> "notok", body |-> <<>>]}
        \cup {[kind |-> "ok", body |-> t] : t \in PageTexts}

\* new Date(): year, month index (0..11), day of the month
ClockReadings ==
    {[year |-> 2026, month |-> 9, date |-> 29], [year |-> 2027, month |-> 0, date |-> 5]}

\* tools/plugin/tailscale.json as parsed by readConfig
BaseRecord ==
    [ name |-> "tailscale", author |-> "author", githubRepository |-> "repo",
      version |-> <<"2", "0", "2", "5", ".", "0", "1", ".", "0", "2">>,
      tailscaleVersion |-> tailscaleVersionId(V_1_90_6),
      tailscaleSHA256 |-> artifactDigest(amd64PackageName(V_1_90_6)),
      packageVersion |-> "pv", packageSHA256 |-> "psha",
      pluginDirectory |-> "plugdir", configDirectory |-> "confdir", minver |-> "6.12" ]

StoredRecords ==
    { BaseRecord,
      [BaseRecord EXCEPT !.tailscaleVersion = tailscaleVersionId(V_1_92_0),
                         !.tailscaleSHA256 = artifactDigest(amd64PackageName(V_1_92_0))],
      [BaseRecord EXCEPT !.tailscaleVersion = tailscaleVersionId(V_1_92),
                         !.tailscaleSHA256 = artifactDigest(amd64PackageName(V_1_92))],
      [BaseRecord EXCEPT !.tailscaleVersion = <<"x">> \o tailscaleVersionId(V_1_92_0) \o <<"-", "o", "l", "d">>],
      [BaseRecord EXCEPT !.tailscaleVersion = <<>>] }

\* a file that is missing, truncated or not JSON
UnreadableFile == [readable |-> FALSE, rec |-> [BaseRecord EXCEPT !.name = "<none>"]]

FileContents == {[readable |-> TRUE, rec |-> r] : r \in StoredRecords} \cup {UnreadableFile}

\* ------------------------------------------------------------------------
\* State
\* ------------------------------------------------------------------------
VARIABLES
    revision,        \* which revision of the script runs
    pc,              \* position of main
    file,            \* contents of tools/plugin/tailscale.json
    file0,           \* its contents when the run started
    config,          \* main's config object
    currentVersion,  \* main's currentVersion
    latestVersion,   \* main's latestVersion
    sha256,          \* main's sha256
    exitCode,        \* process exit code, -1 while running
    failure,         \* why the run failed, "none" otherwise
    requests,        \* the URLs fetched so far, in order
    steps,           \* the functions main has called so far, in order
    listing,         \* the listing text the version lookup received
    checksumResponse,\* the response of the .sha256 resource
    today,           \* the clock reading used by getCurrentDate
    versionSource    \* number of the run, and what the two version endpoints
                     \* answered (a later run gets the same answers)

vars == <<revision, pc, file, file0, config, currentVersion, latestVersion, sha256,
          exitCode, failure, requests, steps, listing, checksumResponse, today,
          versionSource>>

NoClock == [year |-> 0, month |-> 0, date |-> 0]

NoResponse == [kind |-> "none", body |-> <<>>]

Init ==
    /\ revision \in Revisions
    /\ pc = "Start"
    /\ file \in FileContents
    /\ file0 = file
    /\ config = UnreadableFile.rec
    /\ currentVersion = NULL
    /\ latestVersion = NULL
    /\ sha256 = NULL
    /\ exitCode = -1
    /\ failure = "none"
    /\ requests = <<>>
    /\ steps = <<>>
    /\ listing = NULL
    /\ checksumResponse = NoResponse
    /\ today = NoClock
    /\ versionSource = [run |-> 1, stable |-> NoResponse, github |-> NoResponse]

\* the error is logged and main returns instead of calling Deno.exit(1)
FailByReturn(reason) ==
    /\ pc' = "Failed"
    /\ failure' = reason
    /\ exitCode' = 0

\* console.error(...); Deno.exit(1)
Fail(reason) ==
    /\ pc' = "Failed"
    /\ failure' = reason
    /\ exitCode' = 1

Request(endpoint, path) == [endpoint |-> endpoint, path |-> path]

\* ------------------------------------------------------------------------
\* main, one action per awaited call
\* ------------------------------------------------------------------------
\* const config = await readConfig(); currentVersion = extractVersion(...)
ReadConfig ==
    /\ pc = "Start"
    /\ steps' = Append(steps, "readConfig")
    /\ IF file.readable
       THEN /\ config' = file.rec
            /\ currentVersion' = extractVersion(file.rec.tailscaleVersion)
            /\ pc' = "ConfigLoaded"
            /\ UNCHANGED <<exitCode, failure>>
       ELSE /\ Fail("ConfigUnreadable")
            /\ UNCHANGED <<config, currentVersion>>
    /\ UNCHANGED <<versionSource, revision, file, file0, latestVersion, sha256, requests, listing,
                   checksumResponse, today>>

\* main receives the result of fetchLatestTailscaleVersion
ReturnVersion(v) ==
    /\ latestVersion' = v
    /\ IF v = NULL \/ v = <<>>
       THEN Fail("VersionUnavailable")
       ELSE pc' = "VersionChecked" /\ UNCHANGED <<exitCode, failure>>

\* fetchLatestTailscaleVersion up to its return or to the call of the fallback
FetchLatestTailscaleVersion ==
    /\ pc = "ConfigLoaded"
    /\ steps' = Append(steps, "fetchLatestTailscaleVersion")
    /\ requests' = Append(requests, Request("stable", <<>>))
    /\ \E resp \in StableResponses :
          /\ versionSource.run = 1 \/ resp = versionSource.stable
          /\ versionSource' = [versionSource EXCEPT !.stable = resp]
          /\ IF resp.kind = "ok"
             THEN /\ listing' = resp.body
                  /\ ReturnVersion(selectLatestVersion(revision, resp.body))
             ELSE /\ pc' = "GitHubFallback"
                  /\ UNCHANGED <<listing, latestVersion, exitCode, failure>>
    /\ UNCHANGED <<revision, file, file0, config, currentVersion, sha256, checksumResponse,
                   today>>

\* fetchLatestVersionFromGitHub, called from the catch block
FetchLatestVersionFromGitHub ==
    /\ pc = "GitHubFallback"
    /\ requests' = Append(requests, Request("github", <<>>))
    /\ \E resp \in GitHubResponses :
          /\ versionSource.run = 1 \/ resp = versionSource.github
          /\ versionSource' = [versionSource EXCEPT !.github = resp]
          /\ IF resp.kind = "ok"
             THEN ReturnVersion(stripTagPrefix(resp.body))
             ELSE ReturnVersion(NULL)
    /\ UNCHANGED <<revision, file, file0, config, currentVersion, sha256, steps, listing,
                   checksumResponse, today>>

\* the comparison made against the stored identifier instead of the
\* version extracted from it
CompareStoredIdentifier ==
    /\ pc = "VersionChecked"
    /\ steps' = Append(steps, "compare")
    /\ IF config.tailscaleVersion = latestVersion
       THEN pc' = "UpToDate" /\ exitCode' = 0
       ELSE pc' = "UpdatePending" /\ UNCHANGED exitCode
    /\ UNCHANGED <<versionSource, revision, file, file0, config, currentVersion, latestVersion, sha256,
                   failure, requests, listing, checksumResponse, today>>

\* if (currentVersion === latestVersion) Deno.exit(0)
CompareVersions ==
    /\ pc = "VersionChecked"
    /\ steps' = Append(steps, "compare")
    /\ IF currentVersion = latestVersion
       THEN pc' = "UpToDate" /\ exitCode' = 0
       ELSE pc' = "UpdatePending" /\ UNCHANGED exitCode
    /\ UNCHANGED <<versionSource, revision, file, file0, config, currentVersion, latestVersion, sha256,
                   failure, requests, listing, checksumResponse, today>>

\* main without its check of the value fetchSHA256 returned
ReturnSHA256Unchecked(h) ==
    sha256' = h /\ pc' = "ChecksumFetched" /\ UNCHANGED <<exitCode, failure>>

\* main receives the result of fetchSHA256
ReturnSHA256(h) ==
    /\ sha256' = h
    /\ IF h = NULL \/ h = <<>>
       THEN Fail("ChecksumUnavailable")
       ELSE pc' = "ChecksumFetched" /\ UNCHANGED <<exitCode, failure>>

\* what fetchSHA256 of src/update.ts does with the .sha256 response:
\* a hash, NULL, or the request of the listing page
sha256FromResponseUpdateTs(resp) ==
    CASE resp.kind = "ok" -> [next |-> "return", hash |-> firstToken(resp.body)]
      [] resp.kind = "notok" -> [next |-> "page", hash |-> NULL]
      [] OTHER -> [next |-> "return", hash |-> NULL]

\* what fetchSHA256 of src/unnamed/part_003 does with the .sha256 response
sha256FromResponsePart003(resp) ==
    IF resp.kind = "ok" /\ isValidSHA256(firstToken(resp.body))
    THEN [next |-> "return", hash |-> firstToken(resp.body)]
    ELSE [next |-> "return", hash |-> NULL]

sha256FromResponse(rev, resp) ==
    IF rev = "update_ts" THEN sha256FromResponseUpdateTs(resp)
    ELSE sha256FromResponsePart003(resp)

\* fetchSHA256(amd64Package) up to its return or to the second fetch
FetchSHA256 ==
    /\ pc = "UpdatePending"
    /\ steps' = Append(steps, "fetchSHA256")
    /\ requests' = Append(requests,
                          Request("sha256", sha256Url(amd64PackageName(latestVersion))))
    /\ \E resp \in ChecksumResponses(amd64PackageName(latestVersion)) :
          LET r == sha256FromResponse(revision, resp) IN
          /\ checksumResponse' = resp
          /\ IF r.next = "page"
             THEN pc' = "PageFallback" /\ UNCHANGED <<sha256, exitCode, failure>>
             ELSE ReturnSHA256(r.hash)
    /\ UNCHANGED <<versionSource, revision, file, file0, config, currentVersion, latestVersion, listing, today>>

\* src/update.ts only: the listing page is fetched and scanned for the hash
FetchSHA256FromPage ==
    /\ pc = "PageFallback"
    /\ requests' = Append(requests, Request("stable", <<>>))
    /\ \E resp \in PageResponses :
          IF resp.kind = "ok"
          THEN ReturnSHA256(pageHash(resp.body, amd64PackageName(latestVersion)))
          ELSE ReturnSHA256(NULL)
    /\ UNCHANGED <<versionSource, revision, file, file0, config, currentVersion, latestVersion, steps,
                   listing, checksumResponse, today>>

\* the three assignments to config that precede writeConfig
updatedConfig(cfg, now, latest, hash) ==
    [cfg EXCEPT !.version = getCurrentDate(now),
                !.tailscaleVersion = tailscaleVersionId(latest),
                !.tailscaleSHA256 = hash]

\* Deno.writeTextFile either replaces the file, or fails before touching it,
\* or fails after truncating it
WriteOutcomes == {"written", "refused", "truncated"}

\* config.version = ...; ...; await writeConfig(config)
WriteConfig ==
    /\ pc = "ChecksumFetched"
    /\ steps' = Append(steps, "writeConfig")
    /\ \E now \in ClockReadings, outcome \in WriteOutcomes :
          /\ today' = now
          /\ config' = updatedConfig(config, now, latestVersion, sha256)
          /\ CASE outcome = "written" ->
                    /\ file' = [readable |-> TRUE, rec |-> config']
                    /\ pc' = "ConfigWritten"
                    /\ UNCHANGED <<exitCode, failure>>
               [] outcome = "refused" ->
                    /\ file' = file
                    /\ Fail("ConfigUnwritable")
               [] OTHER ->
                    /\ file' = UnreadableFile
                    /\ Fail("ConfigUnwritable")
    /\ UNCHANGED <<versionSource, revision, file0, currentVersion, latestVersion, sha256, requests, listing,
                   checksumResponse>>

\* how the build subprocess ends: it cannot be spawned, or it exits with a code
BuildOutcomes ==
    {[spawned |-> FALSE, code |-> 0]} \cup {[spawned |-> TRUE, code |-> c] : c \in {0, 1, 2}}

\* buildPlugin's result
buildSucceeded(outcome) == outcome.spawned /\ outcome.code = 0

\* a build step that puts the old record back when the build fails
BuildPluginWithRollback ==
    /\ pc = "ConfigWritten"
    /\ steps' = Append(steps, "buildPlugin")
    /\ \E outcome \in BuildOutcomes :
          IF buildSucceeded(outcome)
          THEN pc' = "Done" /\ exitCode' = 0 /\ UNCHANGED <<failure, file>>
          ELSE Fail("BuildFailed") /\ file' = file0
    /\ UNCHANGED <<versionSource, revision, file0, config, currentVersion, latestVersion, sha256,
                   requests, listing, checksumResponse, today>>

\* await buildPlugin(); on success main returns and the process ends with 0
BuildPlugin ==
    /\ pc = "ConfigWritten"
    /\ steps' = Append(steps, "buildPlugin")
    /\ \E outcome \in BuildOutcomes :
          IF buildSucceeded(outcome)
          THEN pc' = "Done" /\ exitCode' = 0 /\ UNCHANGED failure
          ELSE Fail("BuildFailed")
    /\ UNCHANGED <<versionSource, revision, file, file0, config, currentVersion, latestVersion, sha256,
                   requests, listing, checksumResponse, today>>

Next ==
    \/ ReadConfig
    \/ FetchLatestTailscaleVersion
    \/ FetchLatestVersionFromGitHub
    \/ CompareVersions
    \/ FetchSHA256
    \/ FetchSHA256FromPage
    \/ WriteConfig
    \/ BuildPlugin

Spec == Init /\ [][Next]_vars

\* the script is started again after a run that ended in Done: main starts
\* over on the file as the run left it, and the version endpoints answer as
\* they did before
RunAgain ==
    /\ pc = "Done"
    /\ versionSource.run < MaxRuns
    /\ versionSource' = [versionSource EXCEPT !.run = versionSource.run + 1]
    /\ pc' = "Start"
    /\ file0' = file
    /\ config' = UnreadableFile.rec
    /\ currentVersion' = NULL
    /\ latestVersion' = NULL
    /\ sha256' = NULL
    /\ exitCode' = -1
    /\ failure' = "none"
    /\ requests' = <<>>
    /\ steps' = <<>>
    /\ listing' = NULL
    /\ checksumResponse' = NoResponse
    /\ today' = NoClock
    /\ UNCHANGED <<revision, file>>

NextRepeated == Next \/ RunAgain

SpecRepeated == Init /\ [][NextRepeated]_vars

Terminated == pc \in {"Done", "UpToDate", "Failed"}

\* ------------------------------------------------------------------------
\* Properties
\* ------------------------------------------------------------------------
HasStep(name) == \E i \in 1..Len(steps) : steps[i] = name

StepCount(name) == Cardinality({i \in 1..Len(steps) : steps[i] = name})

Requested(endpoint) == \E i \in 1..Len(requests) : requests[i].endpoint = endpoint

RequestCount(endpoint) ==
    Cardinality({i \in 1..Len(requests) : requests[i].endpoint = endpoint})

\* C1: once the comparison has found the extracted stored version string-equal
\* to the fetched latest version, the run is in UpToDate with exit code 0, the
\* config file is as it was at start, writeConfig and buildPlugin were never
\* called and the checksum was never requested.
C1_UpToDateChangesNothing ==
    (HasStep("compare") /\ currentVersion = latestVersion) =>
        /\ pc = "UpToDate"
        /\ exitCode = 0
        /\ file = file0
        /\ ~HasStep("fetchSHA256") /\ ~Requested("sha256")
        /\ ~HasStep("writeConfig")
        /\ ~HasStep("buildPlugin")

\* the stored tailscale_1.90.6_amd64 met the latest version 1.90.6
C1_Witness ==
    /\ pc = "UpToDate"
    /\ file0.rec.tailscaleVersion = tailscaleVersionId(V_1_90_6)
    /\ currentVersion = V_1_90_6
    /\ latestVersion = V_1_90_6

\* C2: when the .sha256 resource answers with a body whose first
\* whitespace-delimited token is not exactly 64 hexadecimal characters, the
\* run is in Failed(ChecksumUnavailable) and the config file is as it was at
\* start.
C2_InvalidChecksumRejected ==
    (checksumResponse.kind = "ok" /\ ~isValidSHA256(firstToken(checksumResponse.body))) =>
        /\ pc = "Failed"
        /\ failure = "ChecksumUnavailable"
        /\ file = file0
        /\ ~HasStep("writeConfig")

\* the artifact a stored identifier names
namedArtifact(rec) == rec.tailscaleVersion \o LIT_TGZ

\* tailscaleSHA256 is the digest of the artifact tailscaleVersion names
\* (hexadecimal digits compared without regard to case)
RecordConsistent(rec) ==
    ToUpperCase(rec.tailscaleSHA256) = ToUpperCase(artifactDigest(namedArtifact(rec)))

\* C3: if the stored record paired its identifier with the digest of the
\* artifact it names when the run started, every record the file holds during
\* the run does so too.
C3_ChecksumMatchesVersion ==
    (file0.readable /\ RecordConsistent(file0.rec) /\ file.readable) =>
        RecordConsistent(file.rec)

\* the stable listing was requested and brought no text
PrimaryFetchFailed == Requested("stable") /\ listing = NULL

\* the stable listing arrived and names no amd64 artifact
PrimaryFoundNothing == listing # NULL /\ Len(matchAllVersions(listing)) = 0

\* C4: when the stable-listing fetch failed or the listing names no artifact,
\* the GitHub fallback is (about to be) queried, and the run fails with
\* VersionUnavailable only after the GitHub fallback was queried too.
C4_FallbackAlwaysTried ==
    /\ (PrimaryFetchFailed \/ PrimaryFoundNothing) =>
            (pc = "GitHubFallback" \/ Requested("github"))
    /\ (pc = "Failed" /\ failure = "VersionUnavailable") => Requested("github")

\* the i-th component of a dotted version as an integer, 0 when it is missing
Component(v, i) ==
    LET p == SplitChar(v, ".") IN IF i <= Len(p) THEN ToNumber(p[i]) ELSE 0

ComponentCount(v) == Len(SplitChar(v, "."))

\* a >= b when components are compared left to right as integers
VersionGE(a, b) ==
    LET n == IF ComponentCount(a) >= ComponentCount(b) THEN ComponentCount(a)
             ELSE ComponentCount(b)
    IN \/ \A i \in 1..n : Component(a, i) = Component(b, i)
       \/ \E k \in 1..n : /\ Component(a, k) > Component(b, k)
                          /\ \A j \in 1..(k - 1) : Component(a, j) = Component(b, j)

\* the lines of the received listing, and the amd64 versions they name
ReceivedLines == SplitChar(listing, "\n")

FoundVersions ==
    {v \in KnownVersions : \E i \in 1..Len(ReceivedLines) : ReceivedLines[i] = amd64PackageName(v)}

Reversed(seq) == [i \in 1..Len(seq) |-> seq[Len(seq) + 1 - i]]

\* C5: when the listing names at least one amd64 artifact, the version the
\* primary strategy hands to main is one of the versions named and is greater than
\* or equal to each of them under left-to-right integer comparison (1.90.10
\* over 1.90.6, 1.92.0 over 1.90.6); the listing with its lines reversed or
\* written twice selects a version with the same components.
C5_SelectsMaximumVersion ==
    (pc = "VersionChecked" /\ listing # NULL /\ FoundVersions # {}) =>
        /\ latestVersion \in FoundVersions
        /\ \A w \in FoundVersions : VersionGE(latestVersion, w)
        /\ (V_1_92_0 \in FoundVersions /\ V_1_92_00 \notin FoundVersions) =>
                latestVersion = V_1_92_0
        /\ (V_1_90_10 \in FoundVersions /\ FoundVersions \subseteq {V_1_90_6, V_1_90_10}) =>
                latestVersion = V_1_90_10
        /\ LET other == selectLatestVersion(revision, JoinLines(Reversed(ReceivedLines)))
               twice == selectLatestVersion(revision, listing \o listing)
           IN /\ VersionGE(other, latestVersion) /\ VersionGE(latestVersion, other)
              /\ twice = latestVersion

\* 1.90.10 was selected from a listing that names 1.90.6 before and after it
C5_Witness ==
    /\ pc = "VersionChecked"
    /\ listing = JoinLines(<<amd64PackageName(V_1_90_6), amd64PackageName(V_1_90_10),
                             amd64PackageName(V_1_90_6)>>)
    /\ latestVersion = V_1_90_10

\* writeConfig was called and did not fail
WriteSucceeded == HasStep("writeConfig") /\ ~(pc = "Failed" /\ failure = "ConfigUnwritable")

\* v reads YYYY.MM.DD and names the day of the clock reading
IsDateOf(v, now) ==
    /\ Len(v) = 10
    /\ v[5] = "." /\ v[8] = "."
    /\ \A i \in {1, 2, 3, 4, 6, 7, 9, 10} : v[i] \in Digits
    /\ ToNumber(SubSeq(v, 1, 4)) = now.year
    /\ ToNumber(SubSeq(v, 6, 7)) = now.month + 1
    /\ ToNumber(SubSeq(v, 9, 10)) = now.date

FrameFields ==
    {"name", "author", "githubRepository", "packageVersion", "packageSHA256",
     "pluginDirectory", "configDirectory", "minver"}

\* C6: after a successful writeConfig the file holds the record read at start
\* with tailscaleVersion = "tailscale_" + latest + "_amd64", tailscaleSHA256 =
\* the accepted checksum token and version = the clock's date as YYYY.MM.DD;
\* the eight other fields are those read at start.
C6_WriteReplacesThreeFields ==
    WriteSucceeded =>
        /\ file.readable
        /\ file.rec.tailscaleVersion = LIT_TAILSCALE \o latestVersion \o LIT_AMD64
        /\ file.rec.tailscaleSHA256 = sha256
        /\ checksumResponse.kind = "ok" => sha256 = firstToken(checksumResponse.body)
        /\ IsDateOf(file.rec.version, today)
        /\ \A f \in FrameFields : file.rec[f] = file0.rec[f]
        /\ DOMAIN file.rec = DOMAIN file0.rec

\* the record for 1.90.6 was rewritten for 1.92.0 on 2027-01-05
C6_Witness ==
    /\ pc = "ConfigWritten"
    /\ file0.rec = BaseRecord
    /\ latestVersion = V_1_92_0
    /\ today.month = 0
    /\ file.rec.version = <<"2", "0", "2", "7", ".", "0", "1", ".", "0", "5">>
    /\ file.rec.tailscaleSHA256 = artifactDigest(amd64PackageName(V_1_92_0))

FailureReasons ==
    {"ConfigUnreadable", "VersionUnavailable", "ChecksumUnavailable", "ConfigUnwritable",
     "BuildFailed"}

\* C7: a run that ended has exit code 0 exactly when it ended in Done or
\* UpToDate; a run that ended in Failed, whatever the reason, has exit code 1
\* and one of the five reasons; a run that has not ended has no exit code.
C7_ExitCodes ==
    /\ Terminated => (exitCode = 0 <=> pc \in {"Done", "UpToDate"})
    /\ pc = "Failed" => (exitCode = 1 /\ failure \in FailureReasons)
    /\ pc \in {"Done", "UpToDate"} => failure = "none"
    /\ ~Terminated => exitCode = -1

\* a run failed because the checksum was not available
C7_Witness == pc = "Failed" /\ failure = "ChecksumUnavailable" /\ exitCode = 1

\* C8: when the build fails after the config was rewritten, the run is in
\* Failed(BuildFailed) with exit code 1, buildPlugin was called once, and the
\* file still holds the record that was written: the new tailscaleVersion,
\* tailscaleSHA256 and version.
C8_BuildFailureKeepsNewConfig ==
    (pc = "Failed" /\ failure = "BuildFailed") =>
        /\ exitCode = 1
        /\ StepCount("buildPlugin") = 1
        /\ StepCount("writeConfig") = 1
        /\ file.readable
        /\ file.rec = config
        /\ file.rec.tailscaleVersion = tailscaleVersionId(latestVersion)
        /\ file.rec.tailscaleSHA256 = sha256
        /\ IsDateOf(file.rec.version, today)

\* the build failed after the record for 1.90.6 was rewritten for 1.92.0
C8_Witness ==
    /\ pc = "Failed" /\ failure = "BuildFailed"
    /\ file0.rec = BaseRecord
    /\ file.rec.tailscaleVersion = tailscaleVersionId(V_1_92_0)
    /\ file # file0

StepOrder ==
    <<"readConfig", "fetchLatestTailscaleVersion", "compare", "fetchSHA256", "writeConfig",
      "buildPlugin">>

Obtained(v) == v # NULL /\ v # <<>>

\* C9: the calls main has made are an initial part of read, version fetch,
\* compare, checksum fetch, config write, build (so each happens at most
\* once); the config write happens only with a latest version and a checksum
\* in hand, and the build only after a config write that succeeded.
C9_StepsInOrder ==
    /\ Len(steps) <= Len(StepOrder)
    /\ steps = SubSeq(StepOrder, 1, Len(steps))
    /\ HasStep("compare") => Obtained(latestVersion)
    /\ HasStep("writeConfig") => (Obtained(latestVersion) /\ Obtained(sha256))
    /\ HasStep("buildPlugin") => (file.readable /\ file.rec = config)

\* a run went through all six steps
C9_Witness == pc = "Done" /\ steps = StepOrder

EndpointRank(endpoint) ==
    CASE endpoint = "stable" -> 1 [] endpoint = "github" -> 2 [] endpoint = "sha256" -> 3

\* C10: the requests of a run are, in this order, the stable listing, the
\* GitHub fallback (only if the listing fetch failed) and the .sha256
\* resource; no endpoint is requested twice, so there are at most three
\* requests and the listing is not fetched again for the checksum.
C10_RequestsOnceInOrder ==
    /\ Len(requests) <= 3
    /\ \A e \in {"stable", "github", "sha256"} : RequestCount(e) <= 1
    /\ \A i, j \in 1..Len(requests) :
          i < j => EndpointRank(requests[i].endpoint) < EndpointRank(requests[j].endpoint)
    /\ Requested("github") => listing = NULL

IsDigitString(t) == t # <<>> /\ \A i \in 1..Len(t) : t[i] \in Digits

\* v reads X.Y.Z with X, Y, Z non-empty strings of digits
IsDottedTriple(v) ==
    LET p == SplitChar(v, ".") IN Len(p) = 3 /\ \A i \in 1..3 : IsDigitString(p[i])

\* some part of the identifier reads tailscale_<X.Y.Z>_amd64
MatchesIdentifierPattern(id) ==
    \E i \in 1..Len(id) :
        /\ i + Len(LIT_TAILSCALE) - 1 <= Len(id)
        /\ SubSeq(id, i, i + Len(LIT_TAILSCALE) - 1) = LIT_TAILSCALE
        /\ \E j \in (i + Len(LIT_TAILSCALE) + Len(LIT_AMD64))..Len(id) :
              /\ SubSeq(id, j - Len(LIT_AMD64) + 1, j) = LIT_AMD64
              /\ IsDottedTriple(SubSeq(id, i + Len(LIT_TAILSCALE), j - Len(LIT_AMD64)))

\* C11: when the stored tailscaleVersion does not match
\* tailscale_<X.Y.Z>_amd64, the version extracted from it is the empty string,
\* the run never fails on reading the record and never ends in UpToDate, and
\* once a latest version was fetched (by either strategy) and compared the
\* run is in UpdatePending or past it, with the checksum fetch as next step.
C11_MalformedIdentifierMeansUpdate ==
    (HasStep("readConfig") /\ file0.readable
        /\ ~MatchesIdentifierPattern(file0.rec.tailscaleVersion)) =>
        /\ currentVersion = <<>>
        /\ pc # "UpToDate"
        /\ ~(pc = "Failed" /\ failure = "ConfigUnreadable")
        /\ HasStep("compare") =>
              /\ Obtained(latestVersion)
              /\ pc = "UpdatePending" \/ HasStep("fetchSHA256")

\* the stored tailscale_1.92_amd64 met the latest version 1.92 of the GitHub
\* fallback and the run went on to the update
C11_Witness ==
    /\ pc = "UpdatePending"
    /\ file0.rec.tailscaleVersion = tailscaleVersionId(V_1_92)
    /\ currentVersion = <<>>
    /\ latestVersion = V_1_92
    /\ Requested("github")

\* C12: a run that follows a run that ended in Done, with the version
\* endpoints answering as before, ends in UpToDate: once it has compared the
\* versions, or has ended, it is in UpToDate with exit code 0, the file is as
\* the first run left it and neither writeConfig nor buildPlugin was called.
\* This is claimed for every latest version, tags of the GitHub fallback
\* included.
C12_SecondRunIsUpToDate ==
    (versionSource.run > 1 /\ (HasStep("compare") \/ Terminated)) =>
        /\ pc = "UpToDate"
        /\ exitCode = 0
        /\ file = file0
        /\ ~HasStep("writeConfig")
        /\ ~HasStep("buildPlugin")
====
